---- MODULE Spec2Model ----
(***************************************************************************)
(* Registry bearer tokens (src/src/token.ts): issuance (createToken),      *)
(* verification (verifyToken, verifyPayload) and the credential facade     *)
(* (checkCredentials).                                                     *)
(*                                                                         *)
(* Representation.                                                         *)
(*  - A JavaScript object is a TLA+ record; a property that is absent is   *)
(*    a key that is not in the record's DOMAIN.                            *)
(*  - A string that the code inspects (request.url) is a sequence of       *)
(*    chunks, each chunk an indivisible piece of text: "/", "?", a path    *)
(*    segment, the origin.  endsWith and split work on the chunks.         *)
(*  - Time is Date.now()/1000 floored, counted from the instant the model  *)
(*    starts (StartTime).                                                  *)
(*  - expirationMinutes is a JavaScript number and may be fractional       *)
(*    (issue-token.ts decodeTime: "30s" gives 30/60).  It is represented   *)
(*    by its numerator over 60, so that 60 * expirationMinutes is the      *)
(*    integer the code adds to the clock.                                  *)
(***************************************************************************)
EXTENDS Integers, Sequences, FiniteSets, TLC

VARIABLES
    now,      \* the wall clock: Math.floor(Date.now() / 1000)
    token,    \* the token last returned by createToken, or NoToken
    issued,   \* the arguments and clock readings of that createToken call
    call      \* the verification call last made and what it returned, or NoCall

vars == <<now, token, issued, call>>

----------------------------------------------------------------------------
(* Bounds of the model *)

MaxTime == 2
MaxExpiry == 1
MaxSlip == 1

StartTime == 1

----------------------------------------------------------------------------
(* JavaScript values *)

Undefined == "<undefined>"
Null == [isNull |-> TRUE]
NoField == [k \in {} |-> Undefined]

Has(obj, key) == key \in DOMAIN obj

\* the result shape of every verification entry point
Denied == [verified |-> FALSE, payload |-> Null]
Verified(payload) == [verified |-> TRUE, payload |-> payload]
\* an exception leaving the function
Throw(name) == [threw |-> name]
Threw(r) == Has(r, "threw")

----------------------------------------------------------------------------
(* Requests *)

Methods == {"HEAD", "GET", "POST", "PUT", "DELETE", "PATCH", "OPTIONS"}

Origin == "https://registry.example"

Paths ==
    { <<"/", "v2", "/">>,
      <<"/", "v2", "/", "teamA", "/", "manifest">>,
      <<"/", "v2", "/", "teamB", "/", "manifest">>,
      <<"/", "v2", "/", "teamA", "/", "v2", "/">>,
      <<"/", "v2", "/", "teamB", "/", "v2", "/">> }

\* every path without a query, and the version path with one
Urls ==
    { <<Origin>> \o p : p \in Paths } \cup { <<Origin, "/", "v2", "/", "?", "n=1">> }

Requests == [method : Methods, url : Urls]

\* String.prototype.endsWith
EndsWith(s, suffix) ==
    /\ Len(s) >= Len(suffix)
    /\ SubSeq(s, Len(s) - Len(suffix) + 1, Len(s)) = suffix

\* new URL(url).pathname: what follows the origin, up to the query or fragment
Pathname(url) ==
    LET rest == Tail(url)
        stops == { i \in 1..Len(rest) : rest[i] \in {"?", "#"} }
        end == IF stops = {} THEN Len(rest)
               ELSE (CHOOSE i \in stops : \A j \in stops : i <= j) - 1
    IN  IF end = 0 THEN <<"/">> ELSE SubSeq(rest, 1, end)

\* String.prototype.split("/"): the pieces between the slashes, "" for an
\* empty piece
RECURSIVE SplitFrom(_, _, _)
SplitFrom(s, i, piece) ==
    IF i > Len(s) THEN <<piece>>
    ELSE IF s[i] = "/" THEN <<piece>> \o SplitFrom(s, i + 1, "")
    ELSE SplitFrom(s, i + 1, s[i])

Split(s) == SplitFrom(s, 1, "")

\* array[index] with a zero-based index
At(array, index) ==
    IF index + 1 <= Len(array) THEN array[index + 1] ELSE Undefined

\* Array.prototype.includes
Includes(array, x) == \E i \in 1..Len(array) : array[i] = x

----------------------------------------------------------------------------
(* Payloads *)

CapabilityLists == { <<>>, <<"pull">>, <<"push">>, <<"pull", "push">> }

NamespaceLists == { <<>>, <<"teamA">>, <<"teamA", "teamB">> }

\* the claim sets verifyPayload is applied to
AudClaims == {NoField} \cup { [aud |-> l] : l \in NamespaceLists }
ExpClaims == {NoField} \cup { [exp |-> e] : e \in 0..MaxTime }
Payloads ==
    { [username |-> "v0", capabilities |-> c, iat |-> StartTime] @@ a @@ e :
        c \in CapabilityLists, a \in AudClaims, e \in ExpClaims }

----------------------------------------------------------------------------
(* RegistryTokens.checkIfV2OnlyPath *)

checkIfV2OnlyPath(request) == EndsWith(request.url, <<"/", "v2", "/">>)

(* RegistryTokens.verifyPayload, with t the value Date.now()/1000 floors to *)

ExpiredCheck(payload, t) ==
    \* payload.exp && now >= payload.exp: 0 and undefined are falsy
    /\ Has(payload, "exp")
    /\ payload.exp # 0
    /\ t >= payload.exp

NamespaceOf(request) == At(Split(Pathname(request.url)), 2)

NamespaceCheck(request, payload) ==
    \* payload.aud && !payload.aud.includes(namespace): every array is truthy
    IF Has(payload, "aud") /\ ~Includes(payload.aud, NamespaceOf(request))
    THEN Denied
    ELSE Verified(payload)

\* reading payload.capabilities.includes / .length of a payload without the
\* property raises a TypeError
NoCapabilities == Throw("TypeError")

\* a HEAD check that asks for pull
HeadDeniedWithoutPull(payload) == ~Includes(payload.capabilities, "pull")

\* HEAD: !capabilities.includes("pull") && !capabilities.includes("push")
HeadDenied(payload) ==
    /\ ~Includes(payload.capabilities, "pull")
    /\ ~Includes(payload.capabilities, "push")

verifyPayload(request, payload, t) ==
    IF ExpiredCheck(payload, t) THEN Denied
    ELSE CASE request.method = "HEAD" ->
                IF ~Has(payload, "capabilities") THEN NoCapabilities
                ELSE IF HeadDenied(payload) THEN Denied
                ELSE NamespaceCheck(request, payload)
           [] request.method = "GET" ->
                IF checkIfV2OnlyPath(request) /\ ~Has(payload, "capabilities")
                THEN NoCapabilities
                ELSE IF checkIfV2OnlyPath(request) /\ Len(payload.capabilities) = 0
                THEN Denied
                ELSE IF checkIfV2OnlyPath(request) THEN Verified(payload)
                ELSE IF ~Has(payload, "capabilities") THEN NoCapabilities
                ELSE IF ~Includes(payload.capabilities, "pull") THEN Denied
                ELSE NamespaceCheck(request, payload)
           [] request.method \in {"POST", "PUT", "DELETE", "PATCH"} ->
                IF ~Has(payload, "capabilities") THEN NoCapabilities
                ELSE IF ~Includes(payload.capabilities, "push") THEN Denied
                ELSE NamespaceCheck(request, payload)
           [] OTHER -> Denied

----------------------------------------------------------------------------
(* Keys and the JWT library (@tsndr/cloudflare-worker-jwt), as token.ts uses it *)

\* a JSON Web Key of pair n; the private half carries d
PrivateKey(n) == [kty |-> "EC", crv |-> "P-256", pair |-> n, d |-> TRUE]
PublicKey(n) == [kty |-> "EC", crv |-> "P-256", pair |-> n]

\* btoa(JSON.stringify(jwk)), the transport form of a key
KeyString(jwk) == [base64 |-> [json |-> jwk]]

PrivateKeyStrings == { KeyString(PrivateKey(n)) : n \in {1, 2} }

\* JSON.parse(decode(key))
importKeyFromBase64(key) == key.base64.json

\* the key the verifying instance was constructed with
jwtPublicKey == importKeyFromBase64(KeyString(PublicKey(1)))

\* JSON.stringify leaves out the properties whose value is undefined;
\* JSON.parse gives the object back
StringProps == {"account_id"}
JsonStringify(obj) ==
    LET kept == { k \in DOMAIN obj : ~(k \in StringProps /\ obj[k] = Undefined) }
    IN  [json |-> [k \in kept |-> obj[k]]]
JsonParse(text) == text.json

\* obj.key, undefined when the property is absent (string-valued properties)
Get(obj, key) == IF Has(obj, key) THEN obj[key] ELSE Undefined

\* the ECDSA signature of a private key over the signing input
Signature(key, header, body) ==
    [pair |-> key.pair, over |-> <<header, body>>, bytes |-> "intact"]

\* jwt.sign(payload, key, {algorithm}): header.payload.signature
JwtSign(payload, key, algorithm) ==
    LET header == JsonStringify([alg |-> algorithm, typ |-> "JWT"])
        body == JsonStringify(payload)
    IN  [header |-> header, payload |-> body,
         signature |-> Signature(key, header, body)]

\* a string that is not header.payload.signature
MalformedToken == [garbage |-> "not-a-jwt"]

WellFormed(tok) == Has(tok, "header") /\ Has(tok, "payload") /\ Has(tok, "signature")

SignatureValid(tok, key) ==
    /\ tok.signature.bytes = "intact"
    /\ tok.signature.pair = key.pair
    /\ tok.signature.over = <<tok.header, tok.payload>>

\* jwt.decode(token).payload
JwtDecodePayload(tok) == JsonParse(tok.payload)

\* jwt.verify(token, key, {algorithm}): what the call can do.  A token that
\* does not validate makes the library return false or throw, depending on
\* its version; so does a validly signed token whose exp has passed, which
\* some versions reject themselves.
JwtVerifyOutcomes(tok, key, algorithm, t) ==
    IF ~WellFormed(tok) THEN {"false", "throw"}
    ELSE IF JsonParse(tok.header).alg # algorithm THEN {"false", "throw"}
    ELSE IF ~SignatureValid(tok, key) THEN {"false", "throw"}
    ELSE IF Has(JwtDecodePayload(tok), "exp") /\ JwtDecodePayload(tok).exp <= t
    THEN {"true", "false", "throw"}
    ELSE {"true"}

----------------------------------------------------------------------------
(* RegistryTokens.createToken.  t1 and t2 are the two readings of the clock, *)
(* Math.floor(Date.now() / 1000) at the iat and at the exp assignment.       *)

\* a number n/60
Sixtieths(n) == [num |-> n, den |-> 60]
\* 60 * minutes
Times60(minutes) == (60 * minutes.num) \div minutes.den

\* the optional trailing parameters: expirationMinutes?, accountID?
OptionalArgs ==
    { e @@ a :
        e \in {NoField} \cup { [expirationMinutes |-> Sixtieths(n)] : n \in 0..MaxExpiry },
        a \in {NoField} \cup { [accountID |-> "account-1"] } }

tokenPayload(caps, namespaces, opt, t1, t2) ==
    LET base == [username |-> "v0", account_id |-> Get(opt, "accountID"),
                 capabilities |-> caps, iat |-> t1, aud |-> namespaces]
    IN  IF Has(opt, "expirationMinutes")
        THEN base @@ [exp |-> t2 + Times60(opt.expirationMinutes)]
        ELSE base

createToken(caps, privateKeyString, namespaces, opt, t1, t2) ==
    JwtSign(tokenPayload(caps, namespaces, opt, t1, t2),
            importKeyFromBase64(privateKeyString), "ES256")

----------------------------------------------------------------------------
(* RegistryTokens.verifyToken.  outcome is what jwt.verify did, t the clock. *)

\* verifyToken without its try/catch
verifyTokenNoCatch(request, tok, outcome, t) ==
    IF outcome = "throw" THEN Throw("Error")
    ELSE IF outcome = "false" THEN Denied
    ELSE verifyPayload(request, JwtDecodePayload(tok), t)

verifyToken(request, tok, outcome, t) ==
    IF outcome = "throw" THEN Denied
    ELSE IF outcome = "false" THEN Denied
    ELSE LET r == verifyPayload(request, JwtDecodePayload(tok), t)
         IN  IF Threw(r) THEN Denied ELSE r

----------------------------------------------------------------------------
(* stripUsernamePasswordFromHeader (./auth) and RegistryTokens.checkCredentials *)

\* a JavaScript array [a, b]
Pair(a, b) == ("0" :> a) @@ ("1" :> b)

\* no header, a scheme that is not Basic, Basic credentials that do not decode
\* to user:password, and Basic credentials carrying a token as the password
BadAuthorizations ==
    { [scheme |-> "none"], [scheme |-> "Bearer"], [scheme |-> "Basic", decodes |-> FALSE] }
BasicAuthorization(tok) ==
    [scheme |-> "Basic", decodes |-> TRUE, username |-> "user", password |-> tok]

stripUsernamePasswordFromHeader(request) ==
    LET h == request.authorization
    IN  IF h.scheme # "Basic" THEN Denied
        ELSE IF ~h.decodes THEN Denied
        ELSE Pair(h.username, h.password)

\* checkCredentials without the early return: the verifier runs on whatever
\* the extraction gave
checkCredentialsNoEarlyReturn(request, outcome, t) ==
    LET res == stripUsernamePasswordFromHeader(request)
    IN  [result |-> IF Has(res, "verified") THEN Denied
                    ELSE verifyToken(request, res["1"], outcome, t),
         jwtVerifyCalls |-> 1]

\* the result and the number of jwt.verify calls made on the way
checkCredentials(request, outcome, t) ==
    LET res == stripUsernamePasswordFromHeader(request)
    IN  IF Has(res, "verified")
        THEN [result |-> res, jwtVerifyCalls |-> 0]
        ELSE [result |-> verifyToken(request, res["1"], outcome, t),
              jwtVerifyCalls |-> 1]

----------------------------------------------------------------------------
(* Tokens a client can present *)

NoToken == [none |-> TRUE]
NoCall == [op |-> "none"]

\* the payload re-serialized with a changed claim, the signature kept
TamperedPayloads(tok) ==
    LET p == JsonParse(tok.payload)
        changed == { [p EXCEPT !.capabilities = <<"pull", "push">>],
                     [k \in DOMAIN p \ {"exp"} |-> p[k]],
                     [k \in DOMAIN p \ {"aud"} |-> p[k]] }
    IN  { [tok EXCEPT !.payload = JsonStringify(q)] : q \in changed \ {p} }

\* a byte of the signature segment altered
TamperedSignature(tok) == [tok EXCEPT !.signature.bytes = "altered"]

\* the header rewritten to another algorithm
OtherAlgorithm(tok) ==
    [tok EXCEPT !.header = JsonStringify([alg |-> "HS256", typ |-> "JWT"])]

\* claims signed with the registry's private key by other means than
\* createToken, without the capabilities claim
ForeignToken(t) == JwtSign([username |-> "v0", iat |-> t], PrivateKey(1), "ES256")

Presentable(tok, t) ==
    IF tok = NoToken THEN {MalformedToken, ForeignToken(t)}
    ELSE {tok, TamperedSignature(tok), OtherAlgorithm(tok), MalformedToken, ForeignToken(t)}
         \cup TamperedPayloads(tok)

----------------------------------------------------------------------------
(* State *)

Init ==
    /\ now = StartTime
    /\ token = NoToken
    /\ issued = NoToken
    /\ call = NoCall

\* the clock advances between calls
Tick ==
    /\ call = NoCall
    /\ now < MaxTime
    /\ now' = now + 1
    /\ UNCHANGED <<token, issued, call>>

\* the caller has read the result of the call
Return ==
    /\ call # NoCall
    /\ call' = NoCall
    /\ UNCHANGED <<now, token, issued>>

\* createToken(caps, privateKeyString, namespaces, expirationMinutes?, accountID?);
\* the clock may pass a second boundary between its two readings
CreateToken ==
    /\ call = NoCall
    /\ \E caps \in CapabilityLists, key \in PrivateKeyStrings,
          namespaces \in NamespaceLists, opt \in OptionalArgs, slip \in 0..MaxSlip :
        /\ now + slip <= MaxTime
        /\ token' = createToken(caps, key, namespaces, opt, now, now + slip)
        /\ issued' = [caps |-> caps, privateKeyString |-> key,
                      namespaces |-> namespaces, opt |-> opt,
                      t1 |-> now, t2 |-> now + slip]
        /\ now' = now + slip
    /\ UNCHANGED call

\* RegistryTokens.verifyPayload(request, payload)
VerifyPayload ==
    /\ call = NoCall
    /\ \E request \in Requests, payload \in Payloads :
        call' = [op |-> "verifyPayload", request |-> request, payload |-> payload,
                 at |-> now, result |-> verifyPayload(request, payload, now)]
    /\ UNCHANGED <<now, token, issued>>

\* registryTokens.verifyToken(request, token)
VerifyToken ==
    /\ call = NoCall
    /\ \E request \in Requests, tok \in Presentable(token, now) :
       \E outcome \in JwtVerifyOutcomes(tok, jwtPublicKey, "ES256", now) :
        call' = [op |-> "verifyToken", request |-> request, token |-> tok,
                 at |-> now, outcome |-> outcome,
                 result |-> verifyToken(request, tok, outcome, now)]
    /\ UNCHANGED <<now, token, issued>>

\* registryTokens.checkCredentials(request), the request carrying an
\* Authorization header or none
CheckCredentials ==
    /\ call = NoCall
    /\ \E r \in Requests,
          auth \in BadAuthorizations
                   \cup { BasicAuthorization(tok) : tok \in Presentable(token, now) } :
       LET request == r @@ [authorization |-> auth]
           tok == IF Has(auth, "password") THEN auth.password ELSE MalformedToken
       IN  \E outcome \in JwtVerifyOutcomes(tok, jwtPublicKey, "ES256", now) :
            LET done == checkCredentials(request, outcome, now)
            IN  call' = [op |-> "checkCredentials", request |-> request,
                         at |-> now, outcome |-> outcome,
                         jwtVerifyCalls |-> done.jwtVerifyCalls,
                         result |-> done.result]
    /\ UNCHANGED <<now, token, issued>>

Next ==
    \/ Tick
    \/ Return
    \/ CreateToken
    \/ VerifyToken
    \/ CheckCredentials

Spec == Init /\ [][Next]_vars

NextPayload ==
    \/ Tick
    \/ Return
    \/ VerifyPayload

SpecPayload == Init /\ [][NextPayload]_vars

----------------------------------------------------------------------------
(* The terms of the specification, spec.md sections 3, 4.4 and 8 *)

SupportedMethods == {"HEAD", "GET", "POST", "PUT", "DELETE", "PATCH"}
PushMethods == {"POST", "PUT", "DELETE", "PATCH"}

\* the request path is exactly /v2/
PathIsV2(request) == Pathname(request.url) = <<"/", "v2", "/">>

\* the request path is /v2/<namespace>/...
PathHasNamespace(request) == NamespaceOf(request) \notin {Undefined, ""}

\* the payload carries no exp, or the clock has not reached it
Unexpired(payload, t) == ~Has(payload, "exp") \/ t < payload.exp

\* the method-to-capability table of section 4.4
MethodRequirementMet(request, caps) ==
    CASE request.method = "HEAD" -> Includes(caps, "pull") \/ Includes(caps, "push")
      [] request.method = "GET" /\ PathIsV2(request) -> caps # <<>>
      [] request.method = "GET" /\ ~PathIsV2(request) -> Includes(caps, "pull")
      [] request.method \in PushMethods -> Includes(caps, "push")
      [] OTHER -> FALSE

IsVerifyPayload == call.op = "verifyPayload"
IsVerifyToken == call.op = "verifyToken"
IsCheckCredentials == call.op = "checkCredentials"

----------------------------------------------------------------------------
(* Claims about verifyPayload, checked under SpecPayload *)

\* C1: a payload whose aud is the empty list or is missing is not restricted
\* to any namespace: unexpired, with the method requirement met on a path
\* /v2/<namespace>/..., it is verified whatever the namespace is.
C1_EmptyAudUnrestricted ==
    ( /\ IsVerifyPayload
      /\ Unexpired(call.payload, call.at)
      /\ (~Has(call.payload, "aud") \/ call.payload.aud = <<>>)
      /\ PathHasNamespace(call.request)
      /\ MethodRequirementMet(call.request, call.payload.capabilities) )
    => call.result = Verified(call.payload)

\* C3: a GET whose path is not exactly /v2/ is denied to a payload without
\* the pull capability.
C3_GetNeedsPull ==
    ( /\ IsVerifyPayload
      /\ call.request.method = "GET"
      /\ ~PathIsV2(call.request)
      /\ ~Includes(call.payload.capabilities, "pull") )
    => call.result = Denied

\* C4: for an unexpired payload whose aud is absent or contains the request's
\* namespace, HEAD is verified exactly when pull or push is present, POST,
\* PUT, DELETE and PATCH exactly when push is present; a method outside the
\* six supported ones is denied whatever the payload is.
C4_MethodMapping ==
    IsVerifyPayload =>
        LET request == call.request
            payload == call.payload
            caps == payload.capabilities
            granted == call.result = Verified(payload)
        IN  /\ call.result \in {Denied, Verified(payload)}
            /\ request.method \notin SupportedMethods => call.result = Denied
            /\ ( /\ Unexpired(payload, call.at)
                 /\ (~Has(payload, "aud")
                       \/ Includes(payload.aud, NamespaceOf(request))) )
               => /\ request.method = "HEAD"
                     => (granted <=> (Includes(caps, "pull") \/ Includes(caps, "push")))
                  /\ request.method \in PushMethods
                     => (granted <=> Includes(caps, "push"))

\* a HEAD request verified on the push capability alone, under an aud that
\* names the request's namespace
C4_Witness ==
    /\ IsVerifyPayload
    /\ call.request.method = "HEAD"
    /\ call.payload.capabilities = <<"push">>
    /\ Has(call.payload, "aud")
    /\ Has(call.payload, "exp")
    /\ call.result = Verified(call.payload)

\* C5: a GET to path /v2/ with an unexpired payload is verified when the
\* capability list is not empty, whatever aud is, and denied when it is empty.
C5_PingBypass ==
    ( /\ IsVerifyPayload
      /\ call.request.method = "GET"
      /\ PathIsV2(call.request)
      /\ Unexpired(call.payload, call.at) )
    => IF call.payload.capabilities # <<>>
       THEN call.result = Verified(call.payload)
       ELSE call.result = Denied

\* C6: on every request that is not the GET /v2/ ping, a payload whose aud is
\* not empty and does not contain the third path segment is denied.
C6_NamespaceEnforced ==
    ( /\ IsVerifyPayload
      /\ ~(call.request.method = "GET" /\ PathIsV2(call.request))
      /\ Has(call.payload, "aud")
      /\ call.payload.aud # <<>>
      /\ ~Includes(call.payload.aud, NamespaceOf(call.request)) )
    => call.result = Denied

\* C7: a payload that carries exp, whatever its value, is denied at every time
\* now >= exp, on every method and path; at a time now < exp the outcome is
\* the one of the same payload without exp.
C7_ExpiryFirst ==
    (IsVerifyPayload /\ Has(call.payload, "exp")) =>
        LET p == call.payload
            noExp == [k \in DOMAIN p \ {"exp"} |-> p[k]]
        IN  IF call.at >= p.exp
            THEN call.result = Denied
            ELSE call.result.verified
                 = verifyPayload(call.request, noExp, call.at).verified

----------------------------------------------------------------------------
(* Claims about createToken, verifyToken and checkCredentials, under Spec *)

MatchingPrivateKey == KeyString(PrivateKey(jwtPublicKey.pair))

\* C2: a token from createToken, verified under the matching key pair before
\* its expiry against a request whose method requirement the capabilities
\* meet and whose namespace is in a non-empty namespace list, is verified,
\* and the payload returned carries the capabilities, aud and account_id
\* given to createToken.
C2_RoundTrip ==
    ( /\ IsVerifyToken
      /\ token # NoToken
      /\ call.token = token
      /\ issued.privateKeyString = MatchingPrivateKey
      /\ Unexpired(JwtDecodePayload(token), call.at)
      /\ MethodRequirementMet(call.request, issued.caps)
      /\ (issued.namespaces # <<>>
            => Includes(issued.namespaces, NamespaceOf(call.request))) )
    => /\ call.result.verified
       /\ call.result.payload.capabilities = issued.caps
       /\ call.result.payload.aud = issued.namespaces
       /\ Get(call.result.payload, "account_id") = Get(issued.opt, "accountID")

\* the token validates: three parts, ES256, an intact signature of the
\* configured key pair over the header and payload presented
Authentic(tok) ==
    /\ WellFormed(tok)
    /\ JsonParse(tok.header).alg = "ES256"
    /\ SignatureValid(tok, jwtPublicKey)

\* C8: verifyToken never throws; its result is the denial or verified with the
\* decoded claims; it is the denial whenever jwt.verify returned false or
\* threw, whenever the token does not validate, and whenever the claim checks
\* raised.
C8_VerifyTokenTotal ==
    IsVerifyToken =>
        /\ ~Threw(call.result)
        /\ \/ call.result = Denied
           \/ /\ WellFormed(call.token)
              /\ call.result = Verified(JwtDecodePayload(call.token))
        /\ call.outcome # "true" => call.result = Denied
        /\ ~Authentic(call.token) => call.result = Denied
        /\ ( /\ call.outcome = "true"
             /\ Threw(verifyPayload(call.request, JwtDecodePayload(call.token), call.at)) )
           => call.result = Denied

\* a token whose payload was changed without re-signing is presented,
\* jwt.verify throws, and the call returns the denial
C8_Witness ==
    /\ IsVerifyToken
    /\ token # NoToken
    /\ call.token \in TamperedPayloads(token)
    /\ call.outcome = "throw"
    /\ call.result = Denied

\* C9: when the extraction from the request gives a verification failure (the
\* Authorization header is missing, not Basic or does not decode),
\* checkCredentials returns that value unchanged and jwt.verify is not called;
\* otherwise it returns what verifyToken returns for the password.
C9_CheckCredentials ==
    IsCheckCredentials =>
        LET request == call.request
            res == stripUsernamePasswordFromHeader(request)
        IN  IF Has(res, "verified")
            THEN /\ call.result = res
                 /\ call.jwtVerifyCalls = 0
            ELSE /\ call.result
                    = verifyToken(request, res["1"], call.outcome, call.at)
                 /\ call.jwtVerifyCalls = 1

\* a request with a Bearer header is denied without a jwt.verify call
C9_Witness ==
    /\ IsCheckCredentials
    /\ call.request.authorization.scheme = "Bearer"
    /\ call.jwtVerifyCalls = 0
    /\ call.result = Denied

\* C10: the payload createToken builds has username "v0" and iat the issuance
\* time, carries exp exactly when expirationMinutes was given, and then
\* exp = iat + 60 * expirationMinutes.
C10_IssuedPayload ==
    token # NoToken =>
        LET p == JwtDecodePayload(token)
        IN  /\ p.username = "v0"
            /\ p.iat = issued.t1
            /\ Has(p, "exp") <=> Has(issued.opt, "expirationMinutes")
            /\ Has(p, "exp") => p.exp = p.iat + Times60(issued.opt.expirationMinutes)

====
